---- MODULE Spec2Model ----
(***************************************************************************)
(* Model of skills/generate-pr-description/scripts/tasks-system.mjs: the   *)
(* configuration resolver getConfigs (load skills-configs.json, prompt for *)
(* every known key without a value, persist) and its accessor              *)
(* getTasksManagerSystemBaseUrl.                                           *)
(*                                                                         *)
(* Text is modelled as sequences of one-character strings, so that trim()  *)
(* is computed.  The content of the config file is modelled as a sequence  *)
(* of JSON tokens (whitespace between tokens is lexical and is kept only   *)
(* as the trailing newline token), so that JSON.stringify and JSON.parse   *)
(* are two different computations.  A JS object is an ordered list of      *)
(* (key, value) entries with distinct keys.                                *)
(***************************************************************************)
EXTENDS Integers, Sequences, FiniteSets, TLC

\* ------------------------------------------------------------------ bounds

\* Longest line the operator types at a prompt.
MaxLineLen == 3

\* ------------------------------------------------------------ text, values

\* Characters the operator can type: a blank and a visible character.
LineChars == {" ", "x"}

\* String.prototype.trim removes white space and line terminators.
IsWhiteSpace(c) == c \in {" ", "\t", "\n", "\r"}

RECURSIVE TrimStart(_)
TrimStart(s) ==
  IF s = <<>> THEN s
  ELSE IF IsWhiteSpace(Head(s)) THEN TrimStart(Tail(s)) ELSE s

RECURSIVE TrimEnd(_)
TrimEnd(s) ==
  IF s = <<>> THEN s
  ELSE IF IsWhiteSpace(s[Len(s)]) THEN TrimEnd(SubSeq(s, 1, Len(s) - 1)) ELSE s

\* A trim that leaves the end of the line as typed: what trimStart() would do.
TrimLeadingOnly(s) == TrimStart(s)

\* s.trim()
Trim(s) == TrimEnd(TrimStart(s))

\* JS values that occur: strings, numbers (by their digits), null, and the
\* undefined a property read yields for a key the object does not have.
Str(s) == [t |-> "str", v |-> s]
Num(d) == [t |-> "num", v |-> d]
Null == [t |-> "null", v |-> <<>>]
Undefined == [t |-> "undefined", v |-> <<>>]

\* A test that takes every string, the empty one too, for a value: what
\* `config[key] === undefined` or `typeof answer === "string"` would do.
TruthyAnyString(val) == val.t = "str" \/ (val.t = "num" /\ val.v # <<"0">>)

\* JS truthiness, as `!config[key]` and `if (answer)` test it.
Truthy(val) ==
  CASE val.t = "str" -> val.v # <<>>
    [] val.t = "num" -> val.v # <<"0">>
    [] OTHER -> FALSE

\* ------------------------------------------------------------- JS objects

Entry(k, val) == [k |-> k, v |-> val]

Keys(obj) == {obj[i].k : i \in 1..Len(obj)}

Has(obj, k) == k \in Keys(obj)

\* obj[k]
Get(obj, k) ==
  IF Has(obj, k)
  THEN (CHOOSE e \in {obj[i] : i \in 1..Len(obj)} : e.k = k).v
  ELSE Undefined

\* An assignment that adds a property even where the object has one of the
\* name.
PutAppending(obj, k, val) == Append(obj, Entry(k, val))

\* obj[k] = val: an existing property keeps its place, a new one goes last.
Put(obj, k, val) ==
  IF Has(obj, k)
  THEN [i \in 1..Len(obj) |-> IF obj[i].k = k THEN Entry(k, val) ELSE obj[i]]
  ELSE Append(obj, Entry(k, val))

RECURSIVE FromEntries(_, _)
FromEntries(es, acc) ==
  IF es = <<>> THEN acc
  ELSE FromEntries(Tail(es), Put(acc, Head(es).k, Head(es).v))

\* ------------------------------------------------------------------- JSON

\* Tokens of a JSON text.  A key token is a member name with its colon's
\* left side; a word token is text that is no JSON token ("not", "json").
Tok(t) == [t |-> t, k |-> "", v |-> <<>>]
LBrace == Tok("{")
RBrace == Tok("}")
LBracket == Tok("[")
RBracket == Tok("]")
Colon == Tok(":")
Comma == Tok(",")
Newline == Tok("nl")
Word == Tok("word")
KeyTok(k) == [t |-> "key", k |-> k, v |-> <<>>]
ValTok(val) == [t |-> val.t, k |-> "", v |-> val.v]
TokVal(tok) == [t |-> tok.t, v |-> tok.v]

IsScalarTok(tok) == tok.t \in {"str", "num", "null"}

\* JSON.stringify of the members of an object, in property order.
RECURSIVE StringifyMembers(_)
StringifyMembers(obj) ==
  IF obj = <<>> THEN <<>>
  ELSE <<KeyTok(Head(obj).k), Colon, ValTok(Head(obj).v)>>
       \o (IF Tail(obj) = <<>> THEN <<>> ELSE <<Comma>> \o StringifyMembers(Tail(obj)))

\* A stringify that writes the first property only.
StringifyFirstOnly(obj) ==
  <<LBrace>> \o (IF obj = <<>> THEN <<>> ELSE StringifyMembers(<<Head(obj)>>)) \o <<RBrace>>

\* JSON.stringify(obj) of an object whose values are strings, numbers, null.
Stringify(obj) == <<LBrace>> \o StringifyMembers(obj) \o <<RBrace>>

\* The text without its white space.
RECURSIVE SkipWhiteSpace(_)
SkipWhiteSpace(text) ==
  IF text = <<>> THEN <<>>
  ELSE IF Head(text) = Newline THEN SkipWhiteSpace(Tail(text))
  ELSE <<Head(text)>> \o SkipWhiteSpace(Tail(text))

ParseError == [ok |-> FALSE, kind |-> "error", val |-> Undefined, entries |-> <<>>]

\* The members between the braces: key, colon, scalar, then the end or a
\* comma and more members.  Entries come in text order, duplicates kept.
RECURSIVE ParseMembers(_)
ParseMembers(toks) ==
  IF Len(toks) < 3 THEN ParseError
  ELSE IF ~(toks[1].t = "key" /\ toks[2] = Colon /\ IsScalarTok(toks[3])) THEN ParseError
  ELSE LET e == Entry(toks[1].k, TokVal(toks[3]))
       IN IF Len(toks) = 3
          THEN [ok |-> TRUE, kind |-> "object", val |-> Undefined, entries |-> <<e>>]
          ELSE IF toks[4] # Comma THEN ParseError
          ELSE LET rest == ParseMembers(SubSeq(toks, 5, Len(toks)))
               IN IF rest.ok
                  THEN [rest EXCEPT !.entries = <<e>> \o rest.entries]
                  ELSE ParseError

\* The elements between the brackets: scalar, then the end or a comma and
\* more elements.
RECURSIVE ParseElements(_)
ParseElements(toks) ==
  IF toks = <<>> THEN ParseError
  ELSE IF ~IsScalarTok(toks[1]) THEN ParseError
  ELSE IF Len(toks) = 1
       THEN [ok |-> TRUE, kind |-> "array", val |-> Undefined,
             entries |-> <<Entry("elem", TokVal(toks[1]))>>]
       ELSE IF toks[2] # Comma THEN ParseError
       ELSE LET rest == ParseElements(SubSeq(toks, 3, Len(toks)))
            IN IF rest.ok
               THEN [rest EXCEPT !.entries = <<Entry("elem", TokVal(toks[1]))>> \o rest.entries]
               ELSE ParseError

\* JSON.parse(raw) for texts of depth at most one: a scalar, an object of
\* scalars, an array of scalars.  Anything else throws (ok = FALSE).
Parse(raw) ==
  LET toks == SkipWhiteSpace(raw)
      n == Len(toks)
  IN IF n = 0 THEN ParseError
     ELSE IF n = 1
          THEN IF IsScalarTok(toks[1])
               THEN [ok |-> TRUE, kind |-> "scalar", val |-> TokVal(toks[1]), entries |-> <<>>]
               ELSE ParseError
     ELSE IF toks[1] = LBrace /\ toks[n] = RBrace
          THEN IF n = 2
               THEN [ok |-> TRUE, kind |-> "object", val |-> Undefined, entries |-> <<>>]
               ELSE ParseMembers(SubSeq(toks, 2, n - 1))
     ELSE IF toks[1] = LBracket /\ toks[n] = RBracket
          THEN IF n = 2
               THEN [ok |-> TRUE, kind |-> "array", val |-> Undefined, entries |-> <<>>]
               ELSE ParseElements(SubSeq(toks, 2, n - 1))
     ELSE ParseError

\* The property names of the indices of a string or an array.
IndexKeys == <<"0", "1", "2", "3">>

\* { ...(parsed ?? {}) }: the own enumerable properties of the parsed value.
\* An object gives its members (a repeated name keeps its last value), a
\* string its characters and an array its elements under their indices,
\* null and a number nothing.
Spread(parsed) ==
  IF parsed.kind = "object" THEN FromEntries(parsed.entries, <<>>)
  ELSE IF parsed.kind = "array"
       THEN [i \in 1..Len(parsed.entries) |-> Entry(IndexKeys[i], parsed.entries[i].v)]
  ELSE IF parsed.kind = "scalar" /\ parsed.val.t = "str"
       THEN [i \in 1..Len(parsed.val.v) |-> Entry(IndexKeys[i], Str(<<parsed.val.v[i]>>))]
  ELSE <<>>

\* --------------------------------------------------------------- registry

\* Object.entries(PROMPTS), keys only: the one known key of the source.
PROMPTS == <<"tasksManagerSystemBaseUrl">>

\* The loop of getConfigs runs over whatever PROMPTS holds; the second
\* registry has one more entry, so that the loop is also run past its first
\* iteration.
Registries == {PROMPTS, PROMPTS \o <<"secondKnownKey">>}

\* Every key a registry of the model solicits.
KnownKeys == UNION {{r[i] : i \in 1..Len(r)} : r \in Registries}

\* ------------------------------------------------------------ config file

\* The file at join(projectRoot, CONFIG_FILENAME): whether it exists,
\* whether readFileSync can read it, and its text.
MissingFile == [exists |-> FALSE, readable |-> FALSE, text |-> <<>>]
FileOf(text) == [exists |-> TRUE, readable |-> TRUE, text |-> text]
UnreadableFileOf(text) == [exists |-> TRUE, readable |-> FALSE, text |-> text]

\* A load with a lenient parser: it keeps the first member read before a
\* syntax error.
LoadFromLenient(f) ==
  IF ~f.exists \/ ~f.readable THEN <<>>
  ELSE LET toks == SkipWhiteSpace(f.text)
       IN IF Len(toks) >= 4 /\ toks[1] = LBrace /\ toks[2].t = "key" /\ IsScalarTok(toks[4])
          THEN <<Entry(toks[2].k, TokVal(toks[4]))>>
          ELSE <<>>

\* Lines 38-48: config = {} unless the file exists, can be read and parses;
\* then config = { ...(parsed ?? {}) }.  A throw of readFileSync or of
\* JSON.parse is caught and leaves config = {}.
LoadFrom(f) ==
  IF ~f.exists THEN <<>>
  ELSE IF ~f.readable THEN <<>>
  ELSE LET parsed == Parse(f.text)
       IN IF parsed.ok THEN Spread(parsed) ELSE <<>>

\* Line 62: writeFileSync(configPath, JSON.stringify(config, null, 2) + "\n")
\* when it succeeds: the file exists and holds the new text alone.  A file
\* that was there keeps its permissions; a new one can be read by its owner.
WrittenFile(f, obj) ==
  [exists |-> TRUE, readable |-> f.exists => f.readable,
   text |-> Stringify(obj) \o <<Newline>>]

\* What a failed writeFileSync can leave: the file untouched (the open
\* failed) or truncated (the open succeeded and the write did not).
FailedWriteFiles(f) ==
  {f} \cup (IF f.exists THEN {[f EXCEPT !.text = <<>>]} ELSE {})

\* ----------------------------------------------------------------- inputs

\* Lines the operator can submit at a prompt.
Lines == UNION {[1..n -> LineChars] : n \in 0..MaxLineLen}

\* Values found in a config file at the start: the empty and a non-empty
\* string, and values that are no strings.
FileValues == {Str(<<>>), Str(<<"u">>), Num(<<"0">>), Num(<<"7">>), Null}

FileKeys == KnownKeys \cup {"other"}

\* The values a key is given in the files of the start: every value for the
\* known key of the source, a value for "other", a string for another key.
ValuesOfKey(k) ==
  IF k = PROMPTS[1] THEN FileValues
  ELSE IF k = "other" THEN {Str(<<"u">>), Num(<<"7">>)}
  ELSE {Str(<<>>), Str(<<"u">>)}

\* The orders in which a file of the start lists its keys.
KeyOrders ==
  { <<PROMPTS[1], "secondKnownKey", "other">>,
    <<"other", "secondKnownKey", PROMPTS[1]>> }

\* The object that lists the keys of f in the given order.
ObjectOf(order, f) ==
  LET Present(k) == k \in DOMAIN f
      ks == SelectSeq(order, Present)
  IN [i \in 1..Len(ks) |-> Entry(ks[i], f[ks[i]])]

\* Objects found in the config file at the start: any of the keys, each with
\* one of its values.
InitialObjects ==
  { ObjectOf(order, f) :
      order \in KeyOrders,
      f \in { g \in UNION {[present -> FileValues] : present \in SUBSET FileKeys} :
                \A k \in DOMAIN g : g[k] \in ValuesOfKey(k) } }

\* Texts that are no JSON: an empty file, the words "not json", an object cut
\* short after a member, a member list without braces.
CorruptTexts ==
  { <<>>,
    <<Word, Word>>,
    <<LBrace, KeyTok(PROMPTS[1]), Colon, ValTok(Str(<<"u">>))>>,
    <<LBrace, KeyTok("other"), Colon, ValTok(Str(<<"u">>)), Comma, RBrace>> }

\* JSON texts that are no objects, and an object that repeats a name.
OtherJsonTexts ==
  { <<ValTok(Null)>>,
    <<ValTok(Num(<<"7">>))>>,
    <<ValTok(Str(<<"u", "u">>))>>,
    <<LBracket, ValTok(Num(<<"7">>)), RBracket>>,
    <<LBrace, KeyTok(PROMPTS[1]), Colon, ValTok(Str(<<"u">>)), Comma,
      KeyTok(PROMPTS[1]), Colon, ValTok(Str(<<>>)), RBrace>> }

InitialFiles ==
  {MissingFile}
  \cup {FileOf(Stringify(obj) \o <<Newline>>) : obj \in InitialObjects}
  \cup {FileOf(text) : text \in CorruptTexts \cup OtherJsonTexts}
  \cup {UnreadableFileOf(Stringify(<<Entry("other", Str(<<"u">>))>>) \o <<Newline>>)}

\* Entry points: getConfigs called as a library function, through
\* getTasksManagerSystemBaseUrl, and by the script run on its own (isMain).
EntryPoints == {"getConfigs", "getTasksManagerSystemBaseUrl", "main"}

\* ------------------------------------------------------------------ state

\* ------------------------------------------------------ ticket-ref rule

\* src/unnamed/part_005 is the local ESLint rule todo-plz/ticket-ref.  Texts
\* (comment values, terms) are sequences of characters.

UpperLetters ==
  <<"A", "B", "C", "D", "E", "F", "G", "H", "I", "J", "K", "L", "M", "N",
    "O", "P", "Q", "R", "S", "T", "U", "V", "W", "X", "Y", "Z">>

LowerLetters ==
  <<"a", "b", "c", "d", "e", "f", "g", "h", "i", "j", "k", "l", "m", "n",
    "o", "p", "q", "r", "s", "t", "u", "v", "w", "x", "y", "z">>

Letters == {UpperLetters[i] : i \in 1..26} \cup {LowerLetters[i] : i \in 1..26}
Digits == {"0", "1", "2", "3", "4", "5", "6", "7", "8", "9"}
WhiteSpace == {" ", "\t"}

\* The characters a character of a pattern matches under the flag "i".
IgnoreCase(c) ==
  IF \E i \in 1..26 : c \in {UpperLetters[i], LowerLetters[i]}
  THEN LET i == CHOOSE j \in 1..26 : c \in {UpperLetters[j], LowerLetters[j]}
       IN {UpperLetters[i], LowerLetters[i]}
  ELSE {c}

\* Regular expressions, as the RegExp constructor builds them with the flag
\* "i": a character class, a sequence, x?, x+, x*.
Chars(set) == [op |-> "chars", set |-> set, items |-> <<>>]
Concat(items) == [op |-> "seq", set |-> {}, items |-> items]
Optional(re) == [op |-> "opt", set |-> {}, items |-> <<re>>]
OneOrMore(re) == [op |-> "plus", set |-> {}, items |-> <<re>>]
ZeroOrMore(re) == [op |-> "star", set |-> {}, items |-> <<re>>]

\* The text as a pattern: each character matches itself in either case.
Literal(text) == Concat([i \in 1..Len(text) |-> Chars(IgnoreCase(text[i]))])

\* The positions a match of re can end before, when it starts at one of the
\* positions P of s.
RECURSIVE Ends(_, _, _)
RECURSIVE Repeated(_, _, _, _)
Ends(re, s, P) ==
  CASE re.op = "chars" ->
         {q + 1 : q \in {p \in P : p <= Len(s) /\ s[p] \in re.set}}
    [] re.op = "seq" ->
         IF re.items = <<>> THEN P
         ELSE Ends(Concat(Tail(re.items)), s, Ends(Head(re.items), s, P))
    [] re.op = "opt" -> P \cup Ends(re.items[1], s, P)
    [] re.op = "plus" -> Repeated(re.items[1], s, Ends(re.items[1], s, P), {})
    [] re.op = "star" -> P \cup Repeated(re.items[1], s, Ends(re.items[1], s, P), {})

\* One or more matches of re: the ends found so far and those still to go on
\* from.
Repeated(re, s, frontier, found) ==
  IF frontier \subseteq found THEN found
  ELSE Repeated(re, s, Ends(re, s, frontier \ found), found \cup frontier)

\* re.test(value) for a pattern without the flags g and y: a match anywhere.
Test(re, value) == Ends(re, value, 1..(Len(value) + 1)) # {}

\* value.includes(term): the term as it is written, case and all.
Includes(value, term) ==
  \E i \in 1..(Len(value) - Len(term) + 1) :
    SubSeq(value, i, i + Len(term) - 1) = term

\* The source texts of the patterns of the option sets, and what the RegExp
\* constructor makes of each.
TicketPattern == "([A-Z]+-\\d+)"
IssuePattern == "(#\\d+)"
ColonCommentPattern == "TODO:\\s[A-Z]+-\\d+"

JiraTicket == Concat(<<OneOrMore(Chars(Letters)), Chars({"-"}), OneOrMore(Chars(Digits))>>)

Compile(source) ==
  CASE source = TicketPattern -> JiraTicket
    [] source = IssuePattern -> Concat(<<Chars({"#"}), OneOrMore(Chars(Digits))>>)
    [] source = ColonCommentPattern ->
         Concat(<<Literal(<<"T", "O", "D", "O", ":">>), Chars(WhiteSpace), JiraTicket>>)

\* An option of the rule: given with a value, or left out.
Given(val) == [given |-> TRUE, v |-> val]
LeftOut == [given |-> FALSE]

\* opt ?? default
OrDefault(opt, default) == IF opt.given THEN opt.v ELSE default

\* The truth value of a string option: given and not the empty string.
IsSet(opt) == opt.given /\ opt.v # ""

Todo == <<"T", "O", "D", "O">>
Fixme == <<"F", "I", "X", "M", "E">>

MakeOptions(pattern, terms, commentPattern, description, comment) ==
  [pattern |-> pattern, terms |-> terms, commentPattern |-> commentPattern,
   description |-> description, comment |-> comment]

\* eslint.config.js lines 85-91: the options the config ships.
ShippedOptions ==
  MakeOptions(Given(TicketPattern), LeftOut, LeftOut, LeftOut, Given("e.g. TODO: JIRA-1234 - description"))

\* Option sets a config can give the rule: none, the shipped ones, two
\* terms with a description, a comment pattern, a comment pattern with a
\* description or with a comment, an empty description, a term given twice.
OptionSets ==
  { MakeOptions(LeftOut, LeftOut, LeftOut, LeftOut, LeftOut),
    ShippedOptions,
    MakeOptions(Given(IssuePattern), Given(<<Todo, Fixme>>), LeftOut,
                Given("see the tracker"), LeftOut),
    MakeOptions(LeftOut, LeftOut, Given(ColonCommentPattern), LeftOut, LeftOut),
    MakeOptions(LeftOut, LeftOut, Given(ColonCommentPattern),
                Given("see the tracker"), LeftOut),
    MakeOptions(LeftOut, LeftOut, Given(ColonCommentPattern), LeftOut,
                Given("e.g. TODO: JIRA-1234 - description")),
    MakeOptions(LeftOut, LeftOut, LeftOut, Given(""), LeftOut),
    MakeOptions(LeftOut, Given(<<Todo, Todo>>), LeftOut, LeftOut, LeftOut) }

\* Values of comments (the text after the //): the format the config and the
\* guidelines document, the format with parentheses, and others.
DocumentedComment ==
  <<" ", "T", "O", "D", "O", ":", " ", "J", "I", "R", "A", "-", "1", "2",
    "3", "4", " ", "-", " ", "d", "e", "s", "c", "r", "i", "p", "t", "i",
    "o", "n">>

ParenthesisedComment ==
  <<" ", "T", "O", "D", "O", " ", "(", "J", "I", "R", "A", "-", "1", "2",
    "3", "4", ")", " ", "d", "e", "s", "c", "r", "i", "p", "t", "i", "o",
    "n">>

TwoTicketsComment ==
  <<" ", "T", "O", "D", "O", "(", "A", "B", "-", "1", ",", " ", "C", "D",
    "-", "2", "2", ")", ":", " ", "x">>

LowerCaseComment ==
  <<" ", "t", "o", "d", "o", " ", "(", "a", "b", "-", "1", ")", " ", "x">>

BareTodoComment ==
  <<" ", "T", "O", "D", "O">>

TwoSpacesComment ==
  <<" ", "T", "O", "D", "O", " ", " ", "(", "A", "B", "-", "1", ")">>

IssueComment ==
  <<" ", "F", "I", "X", "M", "E", " ", "(", "#", "1", "2", ")", " ", "T",
    "O", "D", "O", "(", "#", "3", ")">>

PlainComment ==
  <<" ", "n", "o", " ", "t", "e", "r", "m", " ", "h", "e", "r", "e">>

CommentValues ==
  { DocumentedComment,
    ParenthesisedComment,
    TwoTicketsComment,
    LowerCaseComment,
    BareTodoComment,
    TwoSpacesComment,
    IssueComment,
    PlainComment }

\* The comments of a linted file, at most MaxComments of them.
MaxComments == 2

Files == UNION {[1..n -> CommentValues] : n \in 0..MaxComments}

VARIABLES
  file,       \* the config file on disk
  registry,   \* Object.entries(PROMPTS)
  entry,      \* the entry point of the invocation
  pc,         \* position of the invocation
  config,     \* getConfigs: let config
  changed,    \* getConfigs: let changed
  idx,        \* position of the for..of loop in the registry
  result,     \* what getConfigs resolved to
  urlResult,  \* what getTasksManagerSystemBaseUrl resolved to
  file0,      \* history: the file when the invocation started
  loaded,     \* history: the mapping loaded at the start
  prompted,   \* history: the keys prompted for, in order
  typed,      \* history: the lines the operator submitted, in order
  writes,     \* history: calls of writeFileSync
  stdout,     \* what the process wrote to standard output, in order
  stderr,     \* what the process wrote to standard error, in order
  exitCode,   \* <<exit status>> of the process, once it has exited
  rlOpen,     \* readline interfaces created and not closed
  run,        \* number of the invocation on this project root
  prev,       \* history: the invocation before this one
  thrown,     \* history: the error the invocation ended with, if any
  options,    \* ticket-ref: context.options[0]
  comments,   \* ticket-ref: the values of the comments of the linted file
  ci,         \* ticket-ref: index of the comment the outer loop is at
  ti,         \* ticket-ref: index of the term the inner loop is at
  reports,    \* ticket-ref: the calls of context.report, in order
  lpc,        \* ticket-ref: position in create(context)
  tickets,    \* PR description: the ticket IDs the operator gave, as typed
  related,    \* PR description: the lines of "Related Issue(s)"
  wpc,        \* PR description: position in step 6 of the workflow
  scope,      \* Normalize: the current scope, a set of files
  iteration,  \* Normalize: number of the correction cycle
  nstep,      \* Normalize: the step the workflow is at
  found,      \* Normalize: files the last re-validation found violations in
  cycles,     \* Normalize, history: times step 3 was started
  summary,    \* Normalize: the summary report, once produced
  other,      \* another writer of the config file: its position and mapping
  lastWrite,  \* history: who wrote the config file last
  overlap     \* history: a write began while another was under way

vars == <<file, registry, entry, pc, config, changed, idx, result,
          urlResult, file0, loaded, prompted, typed, writes,
          stdout, stderr, exitCode, rlOpen, run, prev, thrown,
          options, comments, ci, ti, reports, lpc,
          tickets, related, wpc, scope, iteration, nstep, found, cycles,
          summary, other, lastWrite, overlap>>

\* The variables of the config resolver and those of the lint rule.
configVars == <<file, registry, entry, pc, config, changed, idx, result,
                urlResult, file0, loaded, prompted, typed, writes,
                stdout, stderr, exitCode, rlOpen, run, prev, thrown>>
lintVars == <<options, comments, ci, ti, reports, lpc>>

\* The variables of the two workflows: step 6 of generate-pr-description and
\* Normalize.
flowVars == <<tickets, related, wpc>>
normVars == <<scope, iteration, nstep, found, cycles, summary>>

\* The variables of a second writer of the config file.
raceVars == <<other, lastWrite, overlap>>

NoResult == <<Entry("no result", Undefined)>>

\* The process has not exited: no exit status yet.  An exit leaves a
\* sequence holding the status.
Running == <<>>

\* No error was thrown.
NoError == "none"

\* There was no invocation before the first.
NoPrev == [file0 |-> MissingFile, file |-> MissingFile, loaded |-> <<>>,
           writes |-> 0, pc |-> "none", config |-> <<>>, exitCode |-> Running]

\* No invocation has started.
Fresh ==
  /\ entry = "none"
  /\ pc = "idle"
  /\ config = <<>>
  /\ changed = FALSE
  /\ idx = 1
  /\ result = NoResult
  /\ urlResult = Undefined
  /\ file0 = file
  /\ loaded = <<>>
  /\ prompted = <<>>
  /\ typed = <<>>
  /\ writes = 0
  /\ stdout = <<>>
  /\ stderr = <<>>
  /\ exitCode = Running
  /\ rlOpen = 0
  /\ run = 1
  /\ prev = NoPrev
  /\ thrown = NoError

\* The rule is not running.
NoLint ==
  /\ options = ShippedOptions
  /\ comments = <<>>
  /\ ci = 1
  /\ ti = 1
  /\ reports = <<>>
  /\ lpc = "idle"

\* "Related Issue(s)" as the template has it: - (no entry sign).
Placeholder == <<[kind |-> "placeholder", base |-> Undefined, id |-> <<>>]>>

\* No PR description is being written.
NoFlow ==
  /\ tickets = <<>>
  /\ related = Placeholder
  /\ wpc = "idle"

\* No summary was produced.
NoSummary == [produced |-> FALSE, iterations |-> 0, remaining |-> {}]

\* The Normalize workflow is not running.
\* No other writer is at the config file.
NoOther ==
  /\ other = [pc |-> "away", config |-> <<>>]
  /\ lastWrite = "none"
  /\ overlap = FALSE

NoNormalize ==
  /\ scope = {}
  /\ iteration = 0
  /\ nstep = "idle"
  /\ found = {}
  /\ cycles = 0
  /\ summary = NoSummary

\* The resolver on a project root: any file, either registry; no file is
\* being linted and no workflow runs.
Init ==
  /\ file \in InitialFiles
  /\ registry \in Registries
  /\ Fresh
  /\ NoLint
  /\ NoFlow
  /\ NoNormalize
  /\ NoOther

\* Lines 35-38 and 72-73: the call; config = {}.
Invoke(e) ==
  /\ pc = "idle"
  /\ pc' = "load"
  /\ entry' = e
  /\ config' = <<>>
  /\ file0' = file
  /\ UNCHANGED <<file, registry, changed, idx, result, urlResult,
                 loaded, prompted, typed, writes,
                 stdout, stderr, exitCode, rlOpen, run, prev, thrown, lintVars, flowVars, normVars, raceVars>>

\* A load without the catch: a throw of JSON.parse leaves getConfigs.
LoadEscapesOnParseError(f) == f.exists /\ f.readable /\ ~Parse(f.text).ok

\* Lines 41-47: the try block holds the read and the parse, and the catch
\* takes every throw: none leaves getConfigs.
LoadEscapes(f) == FALSE

\* A load that opens the file for writing and so empties it.
FileAfterLoadTruncating(f) == IF f.exists THEN [f EXCEPT !.text = <<>>] ELSE f

\* Lines 40-43: existsSync and readFileSync leave the file as it is.
FileAfterLoad(f) == f

\* Lines 40-50: load the file; changed = false; enter the loop.
LoadConfig ==
  /\ pc = "load"
  /\ config' = LoadFrom(file)
  /\ file' = FileAfterLoad(file)
  /\ loaded' = config'
  /\ changed' = FALSE
  /\ idx' = 1
  /\ pc' = IF LoadEscapes(file) THEN "threw" ELSE "loop"
  /\ UNCHANGED <<registry, entry, result, urlResult, file0,
                 prompted, typed, writes,
                 stdout, stderr, exitCode, rlOpen, run, prev, thrown, lintVars, flowVars, normVars, raceVars>>

\* A loop that handles the first entry of the registry only.
LoopDoneAfterFirst(i, reg) == i > 1

\* Line 51: for..of is over when every entry has been visited.
LoopDone(i, reg) == i > Len(reg)

\* A test for a string value: typeof config[key] !== "string".
NeedsPromptUnlessString(obj, k) == Get(obj, k).t # "str"

\* A test for the presence of the key: !(key in config).
NeedsPromptIfAbsent(obj, k) == ~Has(obj, k)

\* Line 52: if (!config[key])
NeedsPrompt(obj, k) == ~Truthy(Get(obj, k))

\* Lines 51-52: the key has a value: next key.
SkipKey ==
  /\ pc = "loop"
  /\ ~LoopDone(idx, registry)
  /\ ~NeedsPrompt(config, registry[idx])
  /\ idx' = idx + 1
  /\ UNCHANGED <<file, registry, entry, pc, config, changed, result,
                 urlResult, file0, loaded, prompted, typed, writes,
                 stdout, stderr, exitCode, rlOpen, run, prev, thrown, lintVars, flowVars, normVars, raceVars>>

\* Lines 11 and 20-22: rl.question writes the message of the key to
\* process.stdout.
PromptMessage(k) == [kind |-> "prompt", key |-> k, text |-> <<>>]

\* A prompt whose message goes to another stream than standard output.
StdoutAfterPromptElsewhere(out, k) == out

\* Lines 20-21: the interface is created with output: process.stdout, and
\* rl.question writes the message to it.
StdoutAfterPrompt(out, k) == Append(out, PromptMessage(k))

\* Lines 52-53 and 19-22: the key has no value: create the interface, write
\* the message and wait for a line.
IssuePrompt ==
  /\ pc = "loop"
  /\ ~LoopDone(idx, registry)
  /\ NeedsPrompt(config, registry[idx])
  /\ pc' = "prompt"
  /\ prompted' = Append(prompted, registry[idx])
  /\ rlOpen' = rlOpen + 1
  /\ stdout' = StdoutAfterPrompt(stdout, registry[idx])
  /\ UNCHANGED <<file, registry, entry, config, changed, idx, result,
                 urlResult, file0, loaded, typed, writes,
                 stderr, exitCode, run, prev, thrown, lintVars, flowVars, normVars, raceVars>>

\* Lines 22-25: the prompt resolves to (answer ?? "").trim().
PromptResult(ln) == Trim(ln)

\* A callback that leaves the interface open.
ReadersAfterAnswerLeaking(n) == n

\* Line 23: rl.close() in the callback, before fulfill.
ReadersAfterAnswer(n) == n - 1

\* A loop that asks again for a key whose prompt was declined.
IndexAfterAnswerRetrying(i, answer) == IF Truthy(Str(answer)) THEN i + 1 ELSE i

\* Lines 51-59: for..of goes on to the next entry whatever the answer.
IndexAfterAnswer(i, answer) == i + 1

\* Lines 22-25 and 54-58: the operator submits a line; rl.close(); if (answer)
\* { config[key] = answer.trim(); changed = true }.
Answer(ln) ==
  /\ pc = "prompt"
  /\ typed' = Append(typed, ln)
  /\ LET answer == PromptResult(ln)
     IN IF Truthy(Str(answer))
        THEN /\ config' = Put(config, registry[idx], Str(Trim(answer)))
             /\ changed' = TRUE
        ELSE UNCHANGED <<config, changed>>
  /\ rlOpen' = ReadersAfterAnswer(rlOpen)
  /\ idx' = IndexAfterAnswer(idx, PromptResult(ln))
  /\ pc' = "loop"
  /\ UNCHANGED <<file, registry, entry, result, urlResult, file0, loaded,
                 prompted, writes,
                 stdout, stderr, exitCode, run, prev, thrown, lintVars, flowVars, normVars, raceVars>>

\* The process is interrupted, or stdin ends, while the prompt waits: the
\* callback of rl.question never runs.
Interrupt ==
  /\ pc = "prompt"
  /\ pc' = "interrupted"
  /\ UNCHANGED <<file, registry, entry, config, changed, idx, result,
                 urlResult, file0, loaded, prompted, typed, writes,
                 stdout, stderr, exitCode, rlOpen, run, prev, thrown, lintVars, flowVars, normVars, raceVars>>

\* A save as soon as something changed, inside the loop.
SaveDueEager(i, reg, chg) == chg

\* A save on every invocation, changed or not.
SaveDueAlways(i, reg, chg) == i > Len(reg)

\* Lines 59-61: the loop is over and changed is set.
SaveDue(i, reg, chg) == i > Len(reg) /\ chg

\* Lines 61-63: changed, and writeFileSync succeeds.
SaveConfig ==
  /\ pc = "loop"
  /\ SaveDue(idx, registry, changed)
  /\ file' = WrittenFile(file, config)
  /\ writes' = writes + 1
  /\ pc' = "return"
  /\ UNCHANGED <<registry, entry, config, changed, idx, result,
                 urlResult, file0, loaded, prompted, typed,
                 stdout, stderr, exitCode, rlOpen, run, prev, thrown, lintVars, flowVars, normVars, raceVars>>

\* A save whose failure is caught: the invocation goes on to return.
SaveFailsCaught ==
  /\ pc = "loop"
  /\ SaveDue(idx, registry, changed)
  /\ file' \in FailedWriteFiles(file)
  /\ writes' = writes + 1
  /\ pc' = "return"
  /\ thrown' = "writeFileSync"
  /\ UNCHANGED <<registry, entry, config, changed, idx, result,
                 urlResult, file0, loaded, prompted, typed,
                 stdout, stderr, exitCode, rlOpen, run, prev, lintVars, flowVars, normVars, raceVars>>

\* Lines 61-63: changed, and writeFileSync throws: getConfigs rejects.
SaveFails ==
  /\ pc = "loop"
  /\ SaveDue(idx, registry, changed)
  /\ file' \in FailedWriteFiles(file)
  /\ writes' = writes + 1
  /\ pc' = "threw"
  /\ thrown' = "writeFileSync"
  /\ UNCHANGED <<registry, entry, config, changed, idx, result,
                 urlResult, file0, loaded, prompted, typed,
                 stdout, stderr, exitCode, rlOpen, run, prev, lintVars, flowVars, normVars, raceVars>>

\* Line 61: nothing changed: no write.
SkipSave ==
  /\ pc = "loop"
  /\ LoopDone(idx, registry)
  /\ ~SaveDue(idx, registry, changed)
  /\ pc' = "return"
  /\ UNCHANGED <<file, registry, entry, config, changed, idx, result,
                 urlResult, file0, loaded, prompted, typed, writes,
                 stdout, stderr, exitCode, rlOpen, run, prev, thrown, lintVars, flowVars, normVars, raceVars>>

\* Line 65: return config.
Return ==
  /\ pc = "return"
  /\ result' = config
  /\ pc' = "returned"
  /\ UNCHANGED <<file, registry, entry, config, changed, idx,
                 urlResult, file0, loaded, prompted, typed, writes,
                 stdout, stderr, exitCode, rlOpen, run, prev, thrown, lintVars, flowVars, normVars, raceVars>>

\* Line 74: value ?? null replaces undefined and null only.
NullishCoalesce(val) == IF val.t \in {"undefined", "null"} THEN Null ELSE val

\* Lines 73-74: return configs.tasksManagerSystemBaseUrl ?? null.
ReturnUrl ==
  /\ pc = "returned"
  /\ entry = "getTasksManagerSystemBaseUrl"
  /\ urlResult' = NullishCoalesce(Get(result, "tasksManagerSystemBaseUrl"))
  /\ pc' = "urlReturned"
  /\ UNCHANGED <<file, registry, entry, config, changed, idx, result,
                 file0, loaded, prompted, typed, writes,
                 stdout, stderr, exitCode, rlOpen, run, prev, thrown, lintVars, flowVars, normVars, raceVars>>

\* An output that leaves out the keys that are not known keys.
JsonOutputKnownOnly(obj) ==
  LET IsKnown(e) == e.k \in KnownKeys
  IN [kind |-> "json", key |-> "", text |-> Stringify(SelectSeq(obj, IsKnown))]

\* JSON.stringify(configs), as written to standard output.
JsonOutput(obj) == [kind |-> "json", key |-> "", text |-> Stringify(obj)]

\* Lines 80-83: .then: process.stdout.write(JSON.stringify(configs)); with
\* nothing left to wait for, the process exits with status 0.
MainPrint ==
  /\ pc = "returned"
  /\ entry = "main"
  /\ stdout' = Append(stdout, JsonOutput(result))
  /\ exitCode' = <<0>>
  /\ pc' = "exited"
  /\ UNCHANGED <<file, registry, entry, config, changed, idx, result,
                 urlResult, file0, loaded, prompted, typed, writes,
                 stderr, rlOpen, run, prev, thrown, lintVars, flowVars, normVars, raceVars>>

\* Line 86: process.exit(1)
FailureStatus == 1

\* Lines 84-87: .catch: console.error(err); process.exit(1).
MainCatch ==
  /\ pc = "threw"
  /\ entry = "main"
  /\ stderr' = Append(stderr, "err")
  /\ exitCode' = <<FailureStatus>>
  /\ pc' = "exited"
  /\ UNCHANGED <<file, registry, entry, config, changed, idx, result,
                 urlResult, file0, loaded, prompted, typed, writes,
                 stdout, rlOpen, run, prev, thrown, lintVars, flowVars, normVars, raceVars>>

Next ==
  \/ \E e \in EntryPoints : Invoke(e)
  \/ LoadConfig
  \/ SkipKey
  \/ IssuePrompt
  \/ \E ln \in Lines : Answer(ln)
  \/ Interrupt
  \/ SaveConfig
  \/ SaveFails
  \/ SkipSave
  \/ Return
  \/ ReturnUrl
  \/ MainPrint
  \/ MainCatch

Spec == Init /\ [][Next]_vars

\* The invocations on one project root, one after the other.
MaxRuns == 2

\* An invocation is over when it has returned to its caller, when the
\* process has exited, when it has thrown to a caller that is not the isMain
\* block, and when it was interrupted at a prompt.
Over ==
  \/ pc = "returned" /\ entry = "getConfigs"
  \/ pc = "urlReturned"
  \/ pc = "exited"
  \/ pc = "threw" /\ entry # "main"
  \/ pc = "interrupted"

\* Lines 35-38 and 77-88: the program is run again on the same project
\* root: it starts from the file the invocation before left, with nothing
\* else kept.
Reinvoke ==
  /\ Over
  /\ run < MaxRuns
  /\ run' = run + 1
  /\ prev' = [file0 |-> file0, file |-> file, loaded |-> loaded,
              writes |-> writes, pc |-> pc, config |-> config,
              exitCode |-> exitCode]
  /\ entry' = "none"
  /\ pc' = "idle"
  /\ config' = <<>>
  /\ changed' = FALSE
  /\ idx' = 1
  /\ result' = NoResult
  /\ urlResult' = Undefined
  /\ file0' = file
  /\ loaded' = <<>>
  /\ prompted' = <<>>
  /\ typed' = <<>>
  /\ writes' = 0
  /\ stdout' = <<>>
  /\ stderr' = <<>>
  /\ exitCode' = Running
  /\ rlOpen' = 0
  /\ thrown' = NoError
  /\ UNCHANGED <<file, registry, lintVars, flowVars, normVars, raceVars>>

\* The source's registry, and the program run up to MaxRuns times.
InitRepeat == Init /\ registry = PROMPTS

NextRepeat == Next \/ Reinvoke

SpecRepeat == InitRepeat /\ [][NextRepeat]_vars

\* The steps of an invocation whose operator submits a line at every prompt:
\* no prompt is left waiting for ever.
NextAnswered ==
  \/ \E e \in EntryPoints : Invoke(e)
  \/ LoadConfig
  \/ SkipKey
  \/ IssuePrompt
  \/ \E ln \in Lines : Answer(ln)
  \/ SaveConfig
  \/ SaveFails
  \/ SkipSave
  \/ Return
  \/ ReturnUrl
  \/ MainPrint
  \/ MainCatch

\* Lines 50-66 and 72-88: the steps that follow the load.
AfterLoad ==
  \/ SkipKey
  \/ IssuePrompt
  \/ \E ln \in Lines : Answer(ln)
  \/ SaveConfig
  \/ SaveFails
  \/ SkipSave
  \/ Return
  \/ ReturnUrl
  \/ MainPrint
  \/ MainCatch

\* An invocation that has loaded the file runs on: every step of the code
\* after the load is synchronous or an awaited prompt, and the operator
\* submits a line at every prompt.
LiveSpec == Init /\ [][NextAnswered]_vars /\ WF_vars(AfterLoad)

\* ---------------------------------------------- ticket-ref rule: create

\* Lines 34-38: the options with their defaults.
PatternOf(opts) == OrDefault(opts.pattern, TicketPattern)
TermsOf(opts) == OrDefault(opts.terms, <<Todo>>)

\* Lines 43-48: termSearchPatterns[term]: the comment pattern if one is
\* given, else term, \\s?, "(", one or more of (pattern, [,\\s]*), ")".
TermSearchPattern(opts, term) ==
  IF IsSet(opts.commentPattern)
  THEN Compile(opts.commentPattern.v)
  ELSE Concat(<<Literal(term),
                Optional(Chars(WhiteSpace)),
                Chars({"("}),
                OneOrMore(Concat(<<Compile(PatternOf(opts)),
                                   ZeroOrMore(Chars({","} \cup WhiteSpace))>>)),
                Chars({")"})>>)

\* A choice of message that looks at the comment pattern first.
GetMessageIdPatternFirst(opts) ==
  IF IsSet(opts.commentPattern) THEN "missingTicketWithCommentPattern"
  ELSE IF IsSet(opts.description) THEN "missingTicketWithDescription"
  ELSE "missingTicket"

\* Lines 50-54: getMessageId.
GetMessageId(opts) ==
  IF IsSet(opts.description) THEN "missingTicketWithDescription"
  ELSE IF IsSet(opts.commentPattern) THEN "missingTicketWithCommentPattern"
  ELSE "missingTicket"

\* Lines 33-41: create(context) reads the options and the comments.
LintCreate ==
  /\ lpc = "idle"
  /\ lpc' = "scan"
  /\ ci' = 1
  /\ ti' = 1
  /\ reports' = <<>>
  /\ UNCHANGED <<options, comments, configVars, flowVars, normVars, raceVars>>

\* The loops are at a comment and a term.
AtTerm == lpc = "scan" /\ ci <= Len(comments) /\ ti <= Len(TermsOf(options))

\* Lines 56-58: the next term of the comment, or the first of the next
\* comment.
NextTerm ==
  IF ti < Len(TermsOf(options))
  THEN ci' = ci /\ ti' = ti + 1
  ELSE ci' = ci + 1 /\ ti' = 1

\* Line 59: if (!value.includes(term)) continue.
SkipTerm ==
  /\ AtTerm
  /\ ~Includes(comments[ci], TermsOf(options)[ti])
  /\ NextTerm
  /\ UNCHANGED <<options, comments, reports, lpc, configVars, flowVars, normVars, raceVars>>

\* A rule that lets every comment with the term pass, tested or not.
PassTermUntested ==
  /\ AtTerm
  /\ Includes(comments[ci], TermsOf(options)[ti])
  /\ NextTerm
  /\ UNCHANGED <<options, comments, reports, lpc, configVars, flowVars, normVars, raceVars>>

\* Lines 60-61: if (re.test(value)) continue.
PassTerm ==
  /\ AtTerm
  /\ Includes(comments[ci], TermsOf(options)[ti])
  /\ Test(TermSearchPattern(options, TermsOf(options)[ti]), comments[ci])
  /\ NextTerm
  /\ UNCHANGED <<options, comments, reports, lpc, configVars, flowVars, normVars, raceVars>>

\* Lines 62-66: context.report at the comment.
ReportTerm ==
  /\ AtTerm
  /\ Includes(comments[ci], TermsOf(options)[ti])
  /\ ~Test(TermSearchPattern(options, TermsOf(options)[ti]), comments[ci])
  /\ reports' = Append(reports, [comment |-> ci, at |-> ti,
                                 term |-> TermsOf(options)[ti],
                                 messageId |-> GetMessageId(options)])
  /\ NextTerm
  /\ UNCHANGED <<options, comments, lpc, configVars, flowVars, normVars, raceVars>>

\* Lines 56 and 70: the loop over the comments is over: return {}.
LintReturn ==
  /\ lpc = "scan"
  /\ ci > Len(comments) \/ TermsOf(options) = <<>>
  /\ lpc' = "done"
  /\ UNCHANGED <<options, comments, ci, ti, reports, configVars, flowVars, normVars, raceVars>>

\* A visitor with a handler that reports at the first comment once more.
VisitorReportingAgain ==
  <<[node |-> "Program",
     emits |-> <<[comment |-> 1, at |-> 1, term |-> TermsOf(options)[1],
                  messageId |-> GetMessageId(options)]>>]>>

\* Line 70: return {}: the visitor has no handler.
Visitor == <<>>

\* What the handlers of a visitor report when the file is traversed.
RECURSIVE Emitted(_)
Emitted(visitor) ==
  IF visitor = <<>> THEN <<>> ELSE Head(visitor).emits \o Emitted(Tail(visitor))

\* ESLint traverses the file with the visitor create returned.
Traverse ==
  /\ lpc = "done"
  /\ reports' = reports \o Emitted(Visitor)
  /\ lpc' = "linted"
  /\ UNCHANGED <<options, comments, ci, ti, configVars, flowVars, normVars, raceVars>>

\* The rule run on a file: any option set, any comments; no resolver runs.
LintInit ==
  /\ file = MissingFile
  /\ registry = PROMPTS
  /\ Fresh
  /\ options \in OptionSets
  /\ comments \in Files
  /\ ci = 1
  /\ ti = 1
  /\ reports = <<>>
  /\ lpc = "idle"
  /\ NoFlow
  /\ NoNormalize
  /\ NoOther

LintNext ==
  \/ LintCreate
  \/ SkipTerm
  \/ PassTerm
  \/ ReportTerm
  \/ LintReturn
  \/ Traverse

LintSpec == LintInit /\ [][LintNext]_vars

\* ------------------------------------ generate-pr-description: step 6

\* src/unnamed/part_011 is the SKILL.md of generate-pr-description; its step
\* 6 (lines 57-66) asks for ticket IDs, runs tasks-system.mjs and fills
\* "Related Issue(s)".

\* The ticket IDs of one answer, at most MaxTickets of them.
MaxTickets == 2

\* Ticket IDs as the operator types them between the commas: with and
\* without blanks around them.
TicketIds == {<<"x">>, <<" ", "x", "x", " ">>}

\* Line 58: the answers to "Ticket IDs for this PR": none (an empty list or
\* the word none), or some IDs.
TicketAnswers == UNION {[1..n -> TicketIds] : n \in 0..MaxTickets}

\* Line 60: configs.tasksManagerSystemBaseUrl of the JSON the script printed;
\* nothing was printed if the script failed.
BaseUrlOf(out) ==
  LET IsJson(m) == m.kind = "json"
      printed == SelectSeq(out, IsJson)
  IN IF printed = <<>> THEN Undefined
     ELSE Get(Spread(Parse(printed[1].text)), "tasksManagerSystemBaseUrl")

\* Lines 61-64: for each ticket ID (trimmed), the line - [ID]({baseUrl}/{ID}).
Link(baseUrl, id) == [kind |-> "link", base |-> baseUrl, id |-> Trim(id)]

\* Line 58: ask the user for the ticket IDs.  Line 66: with none given,
\* "Related Issue(s)" keeps its placeholder and the step is over.
AskTickets ==
  /\ wpc = "ask"
  /\ \E answer \in TicketAnswers :
       /\ tickets' = answer
       /\ wpc' = IF answer = <<>> THEN "done" ELSE "script"
  /\ UNCHANGED <<related, configVars, lintVars, normVars, raceVars>>

\* Lines 59-60: IDs were given: run node scripts/tasks-system.mjs from the
\* project root.
RunScript ==
  /\ wpc = "script"
  /\ Invoke("main")

\* Lines 60-64: the script has exited: one line per ticket, built on the
\* base URL of its output.
FillRelated ==
  /\ wpc = "script"
  /\ pc = "exited"
  /\ related' = [i \in 1..Len(tickets) |-> Link(BaseUrlOf(stdout), tickets[i])]
  /\ wpc' = "done"
  /\ UNCHANGED <<tickets, configVars, lintVars, normVars, raceVars>>

\* Step 6 on a project root with any config file, the registry of the
\* source, and the script run by the workflow alone.
PrInit ==
  /\ file \in InitialFiles
  /\ registry = PROMPTS
  /\ Fresh
  /\ NoLint
  /\ NoNormalize
  /\ NoOther
  /\ tickets = <<>>
  /\ related = Placeholder
  /\ wpc = "ask"

PrNext ==
  \/ AskTickets
  \/ RunScript
  \/ LoadConfig
  \/ SkipKey
  \/ IssuePrompt
  \/ \E ln \in Lines : Answer(ln)
  \/ Interrupt
  \/ SaveConfig
  \/ SaveFails
  \/ SkipSave
  \/ Return
  \/ MainPrint
  \/ MainCatch
  \/ FillRelated

PrSpec == PrInit /\ [][PrNext]_vars

\* ------------------------------------------------------------ Normalize

\* src/unnamed/part_001 is AGENTS.md; its Normalize workflow (lines 68-90)
\* runs three skills and re-validates in a cycle of steps 3 to 6.

\* Lines 83, 88 and 122: Max 2 iterations.
MaxIterations == 2

\* The files the scope can start from, and files steps 2 and 4 can create.
ScopeFiles == {"a.tsx", "b.tsx"}
CreatedFiles == {"a.utils.ts"}

\* One cycle more than the maximum.
MayIterateOnceMore(i) == i <= MaxIterations

\* Lines 83 and 88: a new iteration is allowed below the maximum.
MayIterate(i) == i < MaxIterations

\* Line 72, step 1: resolve the initial scope; the first iteration begins.
ResolveScope ==
  /\ nstep = "1"
  /\ scope' \in SUBSET ScopeFiles \ {{}}
  /\ iteration' = 1
  /\ nstep' = "2"
  /\ UNCHANGED <<found, cycles, summary, configVars, lintVars, flowVars, raceVars>>

\* Line 74, step 2: react-files-structure-standards; created or renamed
\* files join the scope.
RunFilesStructure ==
  /\ nstep = "2"
  /\ \E created \in SUBSET CreatedFiles : scope' = scope \cup created
  /\ nstep' = "3"
  /\ UNCHANGED <<iteration, found, cycles, summary, configVars, lintVars, flowVars, raceVars>>

\* Line 76, step 3: react-coding-standards, both phases.
RunCodingStandards ==
  /\ nstep = "3"
  /\ cycles' = cycles + 1
  /\ nstep' = "4"
  /\ UNCHANGED <<scope, iteration, found, summary, configVars, lintVars, flowVars, raceVars>>

\* Line 78, step 4: react-single-responsibility; new files join the scope.
RunSingleResponsibility ==
  /\ nstep = "4"
  /\ \E created \in SUBSET CreatedFiles : scope' = scope \cup created
  /\ nstep' = "5"
  /\ UNCHANGED <<iteration, found, cycles, summary, configVars, lintVars, flowVars, raceVars>>

\* Lines 81-83 and 86-88: what follows a re-validation that found
\* violations in the files v: on to the step after, back to step 3, or stop
\* and report.
AfterRevalidation(v, onward) ==
  IF v = {} THEN iteration' = iteration /\ nstep' = onward
  ELSE IF MayIterate(iteration) THEN iteration' = iteration + 1 /\ nstep' = "3"
  ELSE iteration' = iteration /\ nstep' = "7"

\* Lines 80-83, step 5: phase 1 of react-coding-standards on the scope.
RevalidateCodingStandards ==
  /\ nstep = "5"
  /\ \E v \in SUBSET scope :
       /\ found' = v
       /\ AfterRevalidation(v, "6")
  /\ UNCHANGED <<scope, cycles, summary, configVars, lintVars, flowVars, raceVars>>

\* Lines 85-88, step 6: the single-responsibility criteria on the scope.
RevalidateSingleResponsibility ==
  /\ nstep = "6"
  /\ \E v \in SUBSET scope :
       /\ found' = v
       /\ AfterRevalidation(v, "7")
  /\ UNCHANGED <<scope, cycles, summary, configVars, lintVars, flowVars, raceVars>>

\* Lines 90-114, step 7: the summary, with the remaining issues.
ProduceSummary ==
  /\ nstep = "7"
  /\ summary' = [produced |-> TRUE, iterations |-> iteration, remaining |-> found]
  /\ nstep' = "done"
  /\ UNCHANGED <<scope, iteration, found, cycles, configVars, lintVars, flowVars, raceVars>>

\* The workflow is triggered; nothing else runs.
NormInit ==
  /\ file = MissingFile
  /\ registry = PROMPTS
  /\ Fresh
  /\ NoLint
  /\ NoFlow
  /\ scope = {}
  /\ iteration = 0
  /\ nstep = "1"
  /\ found = {}
  /\ cycles = 0
  /\ summary = NoSummary
  /\ NoOther

NormNext ==
  \/ ResolveScope
  \/ RunFilesStructure
  \/ RunCodingStandards
  \/ RunSingleResponsibility
  \/ RevalidateCodingStandards
  \/ RevalidateSingleResponsibility
  \/ ProduceSummary

\* Line 70: execute all steps in order: the agent goes on from every step.
NormSpec == NormInit /\ [][NormNext]_vars /\ WF_vars(NormNext)

\* ------------------------------------------------ two writers, one file

\* Line 62: writeFileSync opens the file, which creates or empties it, and
\* writes the text at its start.  getConfigs takes no lock (lines 36-63), so
\* another process can read and write the file between any two steps of an
\* invocation, the open and the write of its save included.

\* An open that leaves the text of the file in place.
OpenedWithoutTruncating(f) ==
  [exists |-> TRUE, readable |-> f.exists => f.readable, text |-> f.text]

\* The file after it was opened for writing.
OpenedForWrite(f) ==
  [exists |-> TRUE, readable |-> f.exists => f.readable, text |-> <<>>]

\* The file after text was written at its start.
Overwritten(f, text) ==
  [f EXCEPT !.text = IF Len(text) >= Len(f.text) THEN text
                     ELSE text \o SubSeq(f.text, Len(text) + 1, Len(f.text))]

\* Lines 61-62: the save begins: the file is opened.
SaveOpen ==
  /\ pc = "loop"
  /\ SaveDue(idx, registry, changed)
  /\ file' = OpenedForWrite(file)
  /\ overlap' = (overlap \/ other.pc = "opened")
  /\ pc' = "writing"
  /\ UNCHANGED <<registry, entry, config, changed, idx, result,
                 urlResult, file0, loaded, prompted, typed, writes,
                 stdout, stderr, exitCode, rlOpen, run, prev, thrown,
                 other, lastWrite, lintVars, flowVars, normVars>>

\* Line 62: the save ends: the text of config is written.
SaveWrite ==
  /\ pc = "writing"
  /\ file' = Overwritten(file, Stringify(config) \o <<Newline>>)
  /\ writes' = writes + 1
  /\ lastWrite' = "this"
  /\ pc' = "return"
  /\ UNCHANGED <<registry, entry, config, changed, idx, result,
                 urlResult, file0, loaded, prompted, typed,
                 stdout, stderr, exitCode, rlOpen, run, prev, thrown,
                 other, overlap, lintVars, flowVars, normVars>>

\* What the other writer sets: the known key, as a second invocation of
\* getConfigs does when it prompts for it, or a key of another tool.
OtherEntries == {Entry(PROMPTS[1], Str(<<"y">>)), Entry("other", Str(<<"w">>))}

\* Lines 40-58 in the other writer: it loads the file and sets an entry.
OtherLoad ==
  /\ other.pc = "away"
  /\ \E e \in OtherEntries :
       /\ e.k \in KnownKeys => NeedsPrompt(LoadFrom(file), e.k)
       /\ other' = [pc |-> "loaded", config |-> Put(LoadFrom(file), e.k, e.v)]
  /\ UNCHANGED <<lastWrite, overlap, configVars, lintVars, flowVars, normVars>>

\* Lines 61-62 in the other writer: it opens the file.
OtherOpen ==
  /\ other.pc = "loaded"
  /\ file' = OpenedForWrite(file)
  /\ overlap' = (overlap \/ pc = "writing")
  /\ other' = [other EXCEPT !.pc = "opened"]
  /\ UNCHANGED <<registry, entry, pc, config, changed, idx, result,
                 urlResult, file0, loaded, prompted, typed, writes,
                 stdout, stderr, exitCode, rlOpen, run, prev, thrown,
                 lastWrite, lintVars, flowVars, normVars>>

\* Line 62 in the other writer: it writes the text of its mapping.
OtherWrite ==
  /\ other.pc = "opened"
  /\ file' = Overwritten(file, Stringify(other.config) \o <<Newline>>)
  /\ lastWrite' = "other"
  /\ other' = [other EXCEPT !.pc = "done"]
  /\ UNCHANGED <<registry, entry, pc, config, changed, idx, result,
                 urlResult, file0, loaded, prompted, typed, writes,
                 stdout, stderr, exitCode, rlOpen, run, prev, thrown,
                 overlap, lintVars, flowVars, normVars>>

\* One invocation of the source's registry and one other writer.
RaceInit == Init /\ registry = PROMPTS

RaceNext ==
  \/ \E e \in EntryPoints : Invoke(e)
  \/ LoadConfig
  \/ SkipKey
  \/ IssuePrompt
  \/ \E ln \in Lines : Answer(ln)
  \/ SaveOpen
  \/ SaveWrite
  \/ SkipSave
  \/ Return
  \/ ReturnUrl
  \/ MainPrint
  \/ OtherLoad
  \/ OtherOpen
  \/ OtherWrite

RaceSpec == RaceInit /\ [][RaceNext]_vars

\* ----------------------------------------------------------------- claims

\* The operator declined: the line is empty or holds blanks only.
IsBlankLine(ln) == \A i \in 1..Len(ln) : ln[i] = " "

\* s is ln without the blanks around it.
IsTrimOf(s, ln) ==
  \E i, j \in 0..Len(ln) :
    /\ i + j <= Len(ln)
    /\ s = SubSeq(ln, i + 1, Len(ln) - j)
    /\ \A n \in 1..i : ln[n] = " "
    /\ \A n \in (Len(ln) - j + 1)..Len(ln) : ln[n] = " "
    /\ s # <<>> => (s[1] # " " /\ s[Len(s)] # " ")

\* A key has no value: it is absent, or its value is the empty string or one
\* of JSON's values for nothing.
IsEmptyValue(val) == val \in {Undefined, Null, Str(<<>>), Num(<<"0">>)}

\* The known keys that got a non-empty answer in this invocation, and those
\* whose prompt was declined.
AnsweredKeys == {prompted[i] : i \in {j \in 1..Len(typed) : ~IsBlankLine(typed[j])}}
DeclinedKeys == {prompted[i] : i \in {j \in 1..Len(typed) : IsBlankLine(typed[j])}}

\* The loaded mapping has a non-empty value for every known key.
AllKnownKeysLoaded == \A i \in 1..Len(registry) : ~IsEmptyValue(Get(loaded, registry[i]))

\* The object a text holds, if it holds one.
TextEntries(text) ==
  LET parsed == Parse(text)
  IN IF parsed.ok /\ parsed.kind = "object" THEN Spread(parsed) ELSE <<>>

Loading == pc \in {"idle", "load"}
Returned == pc \in {"returned", "urlReturned"}
Ended == pc \in {"return", "returned", "urlReturned", "threw"}

\* C1: when the loaded mapping holds a non-empty value for every known key,
\* the invocation issues no prompt, never writes the file, cannot fail, and
\* returns the mapping of the file: every key of the file with its value.
C1_NoPromptNoWrite ==
  (~Loading /\ AllKnownKeysLoaded) =>
    /\ prompted = <<>>
    /\ writes = 0
    /\ file = file0
    /\ pc \notin {"prompt", "interrupted", "threw"}
    /\ Returned => (result = loaded /\ Stringify(result) \o <<Newline>> = file0.text)

C1_Witness ==
  /\ pc = "returned"
  /\ registry = PROMPTS
  /\ AllKnownKeysLoaded
  /\ Get(result, "other") = Str(<<"u">>)
  /\ Get(result, PROMPTS[1]) = Str(<<"u">>)
  /\ writes = 0

\* C2: as long as a prompt is outstanding or a known key has not been
\* visited yet, the file on disk is the file of the start of the invocation
\* and nothing was written; so an interruption leaves nothing persisted.
C2_FileUntouchedWhileResolving ==
  (pc # "idle" /\ idx <= Len(registry)) => (file = file0 /\ writes = 0)

C2_Witness ==
  /\ pc = "interrupted"
  /\ AnsweredKeys # {}
  /\ file = file0

C4_AllKeysPreserved ==
  (pc \in {"return", "returned", "urlReturned"} /\ writes = 1) =>
    /\ \A k \in Keys(TextEntries(file0.text)) :
         Get(TextEntries(file.text), k) = Get(TextEntries(file0.text), k)
    /\ \A k \in AnsweredKeys : Get(LoadFrom(file), k) = Get(config, k)

\* C4 (amended): after a save, every key of the mapping loaded at the start,
\* other than the known keys answered in this invocation, is in the file
\* with its loaded value; and a Load of the file, if the file can be read,
\* returns every answered key with its assigned value.
C4_OtherKeysPreserved ==
  (pc \in {"return", "returned", "urlReturned"} /\ writes = 1) =>
    /\ \A k \in Keys(loaded) \ AnsweredKeys :
         /\ Has(TextEntries(file.text), k)
         /\ Get(TextEntries(file.text), k) = Get(loaded, k)
    /\ file.readable =>
         \A k \in AnsweredKeys :
           /\ Get(LoadFrom(file), k) = Get(config, k)
           /\ ~IsEmptyValue(Get(LoadFrom(file), k))

C4_Witness ==
  /\ pc = "returned"
  /\ writes = 1
  /\ Get(loaded, "other") = Num(<<"7">>)
  /\ Get(LoadFrom(file), "other") = Num(<<"7">>)
  /\ PROMPTS[1] \in AnsweredKeys
  /\ Get(LoadFrom(file), PROMPTS[1]) = Str(<<"x", " ", "x">>)

\* C5: without a config file the invocation starts from the empty mapping
\* and prompts for every key of the registry, in order, skipping none.
C5_MissingFilePromptsAll ==
  ~file0.exists =>
    /\ ~Loading => loaded = <<>>
    /\ pc \in {"loop", "prompt", "interrupted"} =>
         /\ Len(prompted) \in {idx - 1, idx}
         /\ Len(prompted) <= Len(registry)
         /\ prompted = SubSeq(registry, 1, Len(prompted))
    /\ Ended => prompted = registry

C5_Witness ==
  /\ ~file0.exists
  /\ pc = "returned"
  /\ Len(registry) = 2
  /\ prompted = registry

\* The file exists and cannot be read, or is no JSON, or is the JSON null.
IsBadFile(f) ==
  /\ f.exists
  /\ \/ ~f.readable
     \/ f.text \in CorruptTexts
     \/ f.text = <<ValTok(Null)>>

\* C6: a file that cannot be read or parsed, or that parses to null, loads
\* as the empty mapping; the invocation goes on to prompt for every known
\* key as for a missing file, and it fails only where a write fails.
C6_BadFileLoadsEmpty ==
  IsBadFile(file0) =>
    /\ ~Loading => loaded = <<>>
    /\ pc = "threw" => writes = 1
    /\ pc = "loop" /\ idx = 1 => config = <<>>
    /\ Ended => prompted = registry

C6_Witness ==
  /\ pc = "prompt"
  /\ file0 = FileOf(<<LBrace, KeyTok("other"), Colon, ValTok(Str(<<"u">>)), Comma, RBrace>>)
  /\ config = <<>>

\* C7: over a corrupt file, a saved invocation leaves a file that is a JSON
\* object whose keys are exactly the known keys answered in this
\* invocation, and returns a mapping with exactly these keys.
C7_CorruptFileReplaced ==
  (file0.exists /\ file0.readable /\ file0.text \in CorruptTexts
     /\ pc \in {"return", "returned", "urlReturned"} /\ writes = 1) =>
    /\ Parse(file.text).ok
    /\ Parse(file.text).kind = "object"
    /\ Keys(TextEntries(file.text)) = AnsweredKeys
    /\ Keys(config) = AnsweredKeys
    /\ Returned => result = TextEntries(file.text)

C7_Witness ==
  /\ pc = "returned"
  /\ writes = 1
  /\ file0 = FileOf(<<LBrace, KeyTok(PROMPTS[1]), Colon, ValTok(Str(<<"u">>))>>)
  /\ file.text = <<LBrace, KeyTok(PROMPTS[1]), Colon, ValTok(Str(<<"x">>)), RBrace, Newline>>

\* C8: for every prompted key and every line submitted: if the line without
\* the blanks around it is empty, the key is as it was loaded; otherwise the
\* key is set to exactly that line without the blanks around it; and changed
\* is set exactly if some line was not blank.
C8_TrimmedAnswerStored ==
  /\ \A i \in 1..Len(typed) :
       IF IsBlankLine(typed[i])
       THEN Get(config, prompted[i]) = Get(loaded, prompted[i])
       ELSE /\ Get(config, prompted[i]).t = "str"
            /\ IsTrimOf(Get(config, prompted[i]).v, typed[i])
  /\ changed <=> AnsweredKeys # {}

C8_Witness ==
  /\ pc = "loop"
  /\ typed = << <<" ", " ">>, <<" ", "x", " ">> >>
  /\ ~Has(config, registry[1])
  /\ Get(config, registry[2]) = Str(<<"x">>)
  /\ changed

\* C9: getTasksManagerSystemBaseUrl returns the value of the key when the
\* returned mapping has a non-empty one, null otherwise, and never an empty
\* value.
C9_UrlOrNull ==
  pc = "urlReturned" =>
    /\ IF IsEmptyValue(Get(result, "tasksManagerSystemBaseUrl"))
       THEN urlResult = Null
       ELSE urlResult = Get(result, "tasksManagerSystemBaseUrl")
    /\ urlResult # Str(<<>>)

\* C10 as stated: a key whose prompt was declined is absent from the
\* returned mapping, and the invocation fails only where a write fails.
C10_DeclinedKeyAbsent ==
  /\ Returned => \A k \in DeclinedKeys : ~Has(result, k)
  /\ pc = "threw" => (writes = 1 /\ AnsweredKeys # {})

\* C10 (amended): a key whose prompt was declined is in the returned mapping
\* as it was loaded, without a value: absent if it was absent, otherwise with
\* the empty value it had; and the invocation fails only where a write
\* fails, which takes an answered key.
C10_DeclinedKeyAsLoaded ==
  /\ Returned =>
       \A k \in DeclinedKeys :
         /\ Has(result, k) <=> Has(loaded, k)
         /\ Get(result, k) = Get(loaded, k)
         /\ IsEmptyValue(Get(result, k))
  /\ pc = "threw" => (writes = 1 /\ AnsweredKeys # {})

C10_Witness ==
  /\ pc = "returned"
  /\ registry = PROMPTS
  /\ typed = << <<" ">> >>
  /\ Get(loaded, PROMPTS[1]) = Str(<<>>)
  /\ Get(result, PROMPTS[1]) = Str(<<>>)

\* The invocation has returned its mapping to the caller.
HasReturned == pc \in {"returned", "urlReturned"} \/ (pc = "exited" /\ exitCode = <<0>>)

\* The line submitted at the prompt of key k, as the prompter hands it on.
AnswerFor(k) ==
  LET i == CHOOSE j \in 1..Len(typed) : prompted[j] = k
  IN Str(Trim(typed[i]))

\* The returned mapping is the loaded one with the answered keys set: the
\* keys are the loaded keys and the answered keys, an answered key has its
\* answer, every other key its loaded value.
ReturnsFullMapping ==
  /\ Keys(result) = Keys(loaded) \cup AnsweredKeys
  /\ Len(result) = Cardinality(Keys(result))
  /\ \A k \in AnsweredKeys : Get(result, k) = AnswerFor(k)
  /\ \A k \in Keys(loaded) \ AnsweredKeys : Get(result, k) = Get(loaded, k)

\* On an empty root with one non-empty answer the file is created and holds
\* that key alone, which is the returned mapping.
CreatedWithTheOneKey ==
  (~file0.exists /\ Cardinality(AnsweredKeys) = 1) =>
    /\ file.exists
    /\ TextEntries(file.text) = result
    /\ Keys(result) = AnsweredKeys

\* C11 as stated: the invocation returns the full mapping, and whenever it
\* wrote the file, a load of the file right afterwards gives the returned
\* mapping; on an empty root with one non-empty answer the file is created
\* holding that key alone.
C11_LoadAfterWriteIsResult ==
  HasReturned =>
    /\ ReturnsFullMapping
    /\ writes = 1 => LoadFrom(file) = result
    /\ CreatedWithTheOneKey

\* C11 (amended): the invocation returns the full mapping, and whenever it
\* wrote the file and the process can read the file, a load of the file right
\* afterwards gives the returned mapping; the text written is the returned
\* mapping in any case; on an empty root with one non-empty answer the file
\* is created holding that key alone.
C11_ReadableLoadAfterWriteIsResult ==
  HasReturned =>
    /\ ReturnsFullMapping
    /\ writes = 1 =>
         /\ TextEntries(file.text) = result
         /\ file.readable => LoadFrom(file) = result
    /\ CreatedWithTheOneKey

C11_Witness ==
  /\ pc = "returned"
  /\ ~file0.exists
  /\ registry = PROMPTS
  /\ writes = 1
  /\ file.readable
  /\ LoadFrom(file) = result
  /\ result = <<Entry(PROMPTS[1], Str(<<"x">>))>>

\* C12 as stated: when the file is missing at the start, it exists once the
\* invocation has completed, whatever the operator answered.
C12_MissingFileCreated ==
  (~file0.exists /\ HasReturned) => file.exists

\* The config was printed on standard output.
ConfigPrinted == \E i \in 1..Len(stdout) : stdout[i].kind = "json"

\* C13: a failure of the write is not caught: the invocation ends in the
\* error, no mapping is returned to the caller, and in a standalone run the
\* error is written to standard error, no config is printed on standard
\* output, and the process exits with a status other than zero.
C13_WriteFailurePropagates ==
  thrown = "writeFileSync" =>
    /\ pc \in {"threw", "exited"}
    /\ result = NoResult
    /\ urlResult = Undefined
    /\ ~ConfigPrinted
    /\ pc = "exited" =>
         /\ entry = "main"
         /\ stderr = <<"err">>
         /\ exitCode # Running
         /\ exitCode # <<0>>
    /\ pc = "threw" => (stderr = <<>> /\ exitCode = Running)

C13_Witness ==
  /\ thrown = "writeFileSync"
  /\ entry = "main"
  /\ pc = "exited"
  /\ prompted # <<>>
  /\ stderr # <<>>
  /\ exitCode = <<FailureStatus>>
  /\ ~ConfigPrinted

\* The config outputs on standard output, in order.
ConfigOutputs ==
  LET IsJson(m) == m.kind = "json"
  IN SelectSeq(stdout, IsJson)

\* C14: a standalone run whose resolution succeeded has printed the mapping
\* the resolution returned, every key of it, as one JSON text on one line,
\* exactly once and after every prompt; it has written nothing to standard
\* error and its exit status is no failure status.  Nothing but such a run
\* prints a config.
C14_PrintsResultOnce ==
  /\ (entry = "main" /\ pc = "exited" /\ thrown = NoError) =>
       /\ ConfigOutputs = <<JsonOutput(result)>>
       /\ stdout[Len(stdout)] = JsonOutput(result)
       /\ TextEntries(ConfigOutputs[1].text) = result
       /\ Newline \notin {ConfigOutputs[1].text[i] : i \in 1..Len(ConfigOutputs[1].text)}
       /\ result # NoResult
       /\ stderr = <<>>
       /\ exitCode = <<0>>
  /\ ~(entry = "main" /\ pc = "exited") => ~ConfigPrinted

C14_Witness ==
  /\ entry = "main"
  /\ pc = "exited"
  /\ exitCode = <<0>>
  /\ Len(stdout) = 2
  /\ stdout[1] = PromptMessage(PROMPTS[1])
  /\ Has(result, "other")
  /\ Has(result, PROMPTS[1])
  /\ stdout[2] = JsonOutput(result)

\* The place of a known key in the registry.
RegistryIndex(k) == CHOOSE i \in 1..Len(registry) : registry[i] = k

\* C15: prompts come one after another and in registry order.  At most one
\* prompt is outstanding (issued and not answered), and one is exactly while
\* the invocation waits at a prompt; the prompted keys are known keys without
\* a value at the load, each prompted once, in the order of the registry; and
\* when a key is prompted, every missing key before it in the registry has
\* been prompted and answered.
C15_PromptsSequentialInOrder ==
  /\ Len(prompted) - Len(typed) \in {0, 1}
  /\ Len(prompted) - Len(typed) = 1 <=> pc \in {"prompt", "interrupted"}
  /\ \A i \in 1..Len(prompted) :
       /\ \E j \in 1..Len(registry) : registry[j] = prompted[i]
       /\ ~Truthy(Get(loaded, prompted[i]))
  /\ \A i, j \in 1..Len(prompted) :
       i < j => RegistryIndex(prompted[i]) < RegistryIndex(prompted[j])
  /\ \A i \in 1..Len(prompted) :
       \A j \in 1..(RegistryIndex(prompted[i]) - 1) :
         ~Truthy(Get(loaded, registry[j])) =>
           \E h \in 1..(i - 1) : prompted[h] = registry[j] /\ h <= Len(typed)

C15_Witness ==
  /\ pc = "prompt"
  /\ Len(registry) = 2
  /\ prompted = registry
  /\ Len(typed) = 1
  /\ IsBlankLine(typed[1])

\* C16: a call of the prompter opens one reader, takes one line and closes
\* the reader before its result is handed on.  At most one reader is open; one
\* is open exactly while a prompt waits for its line (or was interrupted
\* there); every finished call has taken one line; and no reader is open
\* when the loop goes on, nor once the invocation has returned or thrown.
C16_OneReaderReleased ==
  /\ rlOpen \in {0, 1}
  /\ rlOpen = 1 <=> pc \in {"prompt", "interrupted"}
  /\ Len(typed) = Len(prompted) - rlOpen
  /\ pc = "loop" => rlOpen = 0
  /\ (HasReturned \/ Ended \/ pc = "exited") => rlOpen = 0

C16_Witness ==
  /\ pc = "returned"
  /\ Len(registry) = 2
  /\ prompted = registry
  /\ Len(typed) = 2
  /\ rlOpen = 0

\* The two states of an invocation: resolving while a known key is still to
\* be visited, resolved once the loop over the registry is over.
Resolving == pc \in {"load", "loop", "prompt"} /\ ~(pc = "loop" /\ idx > Len(registry))
Resolved == pc \notin {"idle", "load", "prompt", "interrupted"} /\ idx > Len(registry)

\* Every known key has a non-empty value in the returned mapping or was
\* prompted, once, and declined.
EveryKnownKeySettled ==
  \A i \in 1..Len(registry) :
    \/ ~IsEmptyValue(Get(result, registry[i]))
    \/ /\ registry[i] \in DeclinedKeys
       /\ Cardinality({j \in 1..Len(prompted) : prompted[j] = registry[i]}) = 1

\* C17: with an operator who submits a line at every prompt, an invocation
\* that has loaded the file gets to resolved, with at most one prompt for each known
\* key; a waiting prompt is left by its answer alone, so nothing is returned
\* while a prompt is outstanding; resolved is never left for resolving; and
\* when the invocation returns, every known key has a non-empty value in the
\* returned mapping or was prompted once and declined.
C17_ResolvesWithoutReentry ==
  /\ (pc = "loop") ~> Resolved
  /\ [][Resolved => Resolved']_vars
  /\ [][pc = "prompt" => (pc' = "loop" /\ Len(typed') = Len(typed) + 1)]_vars
  /\ [](Resolving \/ Resolved \/ pc = "idle")
  /\ [](Len(prompted) <= Len(registry))
  /\ []((Resolved /\ pc # "loop") => Len(typed) = Len(prompted))
  /\ [](HasReturned => EveryKnownKeySettled)

C17_Witness ==
  /\ pc = "returned"
  /\ Len(registry) = 2
  /\ Len(prompted) = 2
  /\ IsBlankLine(typed[1])
  /\ ~IsBlankLine(typed[2])
  /\ IsEmptyValue(Get(result, registry[1]))
  /\ EveryKnownKeySettled

\* Every value of the mapping is a string.
AllValuesStrings(obj) == \A i \in 1..Len(obj) : obj[i].v.t = "str"

\* C18 as stated: whatever the file holds, every value of the returned
\* mapping, and of a mapping written to the file, is a string.
C18_ValuesAreStrings ==
  /\ HasReturned => AllValuesStrings(result)
  /\ (writes = 1 /\ pc = "return") => AllValuesStrings(TextEntries(file.text))

\* C19: a load has no effect on the file, and two loads with no save between
\* them give the same mapping.  After the load and as long as nothing was
\* written, the file is the file of the start; and where the invocation
\* before this one wrote nothing, this invocation starts from the file that
\* one started from and loads the mapping that one loaded, which for a
\* readable JSON object is the object.
C19_LoadIdempotent ==
  /\ (~Loading /\ writes = 0) => file = file0
  /\ (~Loading /\ file0.readable /\ TextEntries(file0.text) # <<>>) =>
       loaded = TextEntries(file0.text)
  /\ (run > 1 /\ prev.writes = 0) => file0 = prev.file0
  /\ (run > 1 /\ prev.writes = 0 /\ ~Loading) => loaded = prev.loaded

C19_Witness ==
  /\ run = 2
  /\ prev.writes = 0
  /\ prev.pc = "returned"
  /\ pc = "loop"
  /\ Get(prev.loaded, "other") = Num(<<"7">>)
  /\ Get(prev.loaded, PROMPTS[1]) = Str(<<>>)
  /\ loaded = prev.loaded
  /\ file = prev.file0

\* The comments the rule reported.
ReportedComments == {comments[reports[i].comment] : i \in 1..Len(reports)}

\* C20 as stated: under the shipped options, a comment in the documented
\* format, TODO: JIRA-1234 - description, is not reported.
C20_DocumentedFormatPasses ==
  (lpc = "done" /\ options = ShippedOptions) => DocumentedComment \notin ReportedComments

\* The reports for the comment at index c and the term at index t of the
\* configured terms.
ReportsFor(c, t) == {i \in 1..Len(reports) : reports[i].comment = c /\ reports[i].at = t}

\* The value holds a ticket number of the configured pattern somewhere.
ReferencesTicket(value) == Test(Compile(PatternOf(options)), value)

\* C21: when the rule is through, every comment that contains a configured
\* term and holds no ticket number has exactly one report for that term, at
\* the comment; and a comment that contains the term and matches the search
\* pattern of the term (term and ticket in the accepted form) has none.
C21_ReportsTermWithoutTicket ==
  lpc \in {"done", "linted"} =>
    \A c \in 1..Len(comments) : \A t \in 1..Len(TermsOf(options)) :
      LET term == TermsOf(options)[t]
      IN /\ (Includes(comments[c], term) /\ ~ReferencesTicket(comments[c])) =>
              /\ Cardinality(ReportsFor(c, t)) = 1
              /\ \A i \in ReportsFor(c, t) : reports[i].term = term
         /\ (Includes(comments[c], term)
               /\ Test(TermSearchPattern(options, term), comments[c])) =>
              ReportsFor(c, t) = {}

C21_Witness ==
  /\ lpc = "done"
  /\ options = ShippedOptions
  /\ comments = <<BareTodoComment, ParenthesisedComment>>
  /\ Len(reports) = 1
  /\ reports[1].comment = 1

\* A base URL: a string that is not empty.
IsBaseUrl(val) == val.t = "str" /\ val.v # <<>>

\* C22 as stated: at the end of step 6, if the operator gave ticket IDs, the
\* resolver was run and "Related Issue(s)" holds one link for each ID, in
\* order, made of a base URL and the trimmed ID; if the operator gave none,
\* the resolver was not run (no prompt, no write) and "Related Issue(s)" is
\* the placeholder.
C22_OneLinkPerTicket ==
  wpc = "done" =>
    IF tickets = <<>>
    THEN /\ pc = "idle"
         /\ prompted = <<>>
         /\ writes = 0
         /\ file = file0
         /\ related = Placeholder
    ELSE /\ pc = "exited"
         /\ Len(related) = Len(tickets)
         /\ \A i \in 1..Len(tickets) :
              /\ related[i].kind = "link"
              /\ related[i].id = Trim(tickets[i])
              /\ IsBaseUrl(related[i].base)

\* C23: the Normalize workflow always ends with its summary.  Step 3 is
\* started at most MaxIterations times whatever the re-validations find; a
\* new iteration begins only from a re-validation that found violations;
\* and the summary tells the iterations and the violations that remain,
\* which there are only after the last iteration allowed.
C23_NormalizeTerminates ==
  /\ <>(nstep = "done" /\ summary.produced)
  /\ [](cycles <= MaxIterations /\ iteration <= MaxIterations)
  /\ [](nstep \notin {"idle", "1", "2", "3"} => cycles = iteration)
  /\ [][iteration' > iteration =>
          \/ nstep = "1"
          \/ nstep \in {"5", "6"} /\ found' # {} /\ nstep' = "3"]_vars
  /\ [][(nstep \in {"5", "6"} /\ found' = {}) => nstep' \in {"6", "7"}]_vars
  /\ [](nstep = "done" =>
          /\ summary.iterations = cycles
          /\ summary.remaining = found
          /\ found # {} => cycles = MaxIterations)

C23_Witness ==
  /\ nstep = "done"
  /\ summary.produced
  /\ summary.iterations = 2
  /\ summary.remaining = {"a.tsx", "a.utils.ts"}
  /\ cycles = 2

\* The entries of the object obj under the key k.
EntriesUnder(obj, k) == {i \in 1..Len(obj) : obj[i].k = k}

\* The known keys the loop has been through.
VisitedKeys == {registry[i] : i \in {j \in 1..Len(registry) : j < idx}}

PromptedKeys == {prompted[i] : i \in 1..Len(prompted)}

\* C24: a known key the loop has been through was prompted for exactly if
\* the loaded mapping holds no non-empty value for it, and no other key is
\* ever prompted for; an answered key has one entry in the mapping, holding
\* the answer, and after the save the file holds the answer under that key
\* and no longer the empty value it was loaded with.
C24_PromptedIffEmptyLoaded ==
  ~Loading =>
    /\ \A k \in VisitedKeys : k \in PromptedKeys <=> IsEmptyValue(Get(loaded, k))
    /\ \A k \in PromptedKeys :
         /\ IsEmptyValue(Get(loaded, k))
         /\ k \in VisitedKeys \/ (pc \in {"prompt", "interrupted"} /\ k = registry[idx])
    /\ \A k \in AnsweredKeys :
         /\ Cardinality(EntriesUnder(config, k)) = 1
         /\ Get(config, k) = AnswerFor(k)
         /\ ~IsEmptyValue(Get(config, k))
         /\ (writes = 1 /\ thrown = NoError) =>
              /\ file.text = Stringify(config) \o <<Newline>>
              /\ Get(TextEntries(file.text), k) = AnswerFor(k)
              /\ Get(TextEntries(file.text), k) # Get(loaded, k)

C24_Witness ==
  /\ pc = "returned"
  /\ writes = 1
  /\ Get(loaded, "other") = Str(<<"u">>)
  /\ Has(loaded, PROMPTS[1])
  /\ Get(loaded, PROMPTS[1]) = Str(<<>>)
  /\ PROMPTS[1] \in AnsweredKeys
  /\ Get(TextEntries(file.text), PROMPTS[1]) = Str(<<"x">>)

\* The comments of the file that contain the term t as written.
CommentsWith(t) == {c \in 1..Len(comments) : Includes(comments[c], t)}

\* The term values the rule was configured with.
ConfiguredTerms == {TermsOf(options)[t] : t \in 1..Len(TermsOf(options))}

\* The report at index i comes before the one at index j in the pass: an
\* earlier comment, or the same comment and an earlier entry of the terms.
InPassOrder(i, j) ==
  \/ reports[i].comment < reports[j].comment
  \/ reports[i].comment = reports[j].comment /\ reports[i].at < reports[j].at

\* C25: every report is at a comment of the file whose value contains, as
\* written, the configured term the report names, so a comment with none of
\* the terms (todo for TODO) has no report; the reports come in the order of
\* the one pass, so a comment and an entry of the terms have at most one; and
\* once create has returned no report is added: the visitor has no handler.
C25_ReportsOnlyInThePass ==
  /\ \A i \in 1..Len(reports) :
       /\ reports[i].comment \in 1..Len(comments)
       /\ reports[i].at \in 1..Len(TermsOf(options))
       /\ reports[i].term = TermsOf(options)[reports[i].at]
       /\ Includes(comments[reports[i].comment], reports[i].term)
  /\ \A c \in 1..Len(comments) :
       (\A t \in ConfiguredTerms : c \notin CommentsWith(t)) =>
         \A i \in 1..Len(reports) : reports[i].comment # c
  /\ \A i, j \in 1..Len(reports) : i < j => InPassOrder(i, j)
  /\ \A c \in 1..Len(comments) : \A t \in 1..Len(TermsOf(options)) :
       Cardinality(ReportsFor(c, t)) <= 1
  /\ lpc = "linted" =>
       Len(reports) =
         Cardinality({<<c, t>> \in (1..Len(comments)) \X (1..Len(TermsOf(options))) :
                        /\ Includes(comments[c], TermsOf(options)[t])
                        /\ ~Test(TermSearchPattern(options, TermsOf(options)[t]), comments[c])})

C25_Witness ==
  /\ lpc = "linted"
  /\ TermsOf(options) = <<Todo, Fixme>>
  /\ comments = <<LowerCaseComment, BareTodoComment>>
  /\ Len(reports) = 1
  /\ reports[1].comment = 2
  /\ reports[1].term = Todo

\* What the rule is expected to report for the comments cs under the options
\* opts: the comment, the entry of the terms and the message of each pair
\* whose comment contains the term and fails the search pattern.
Outcome(opts, cs) ==
  {[comment |-> c, at |-> t, messageId |-> GetMessageId(opts)] :
     <<c, t>> \in {<<d, u>> \in (1..Len(cs)) \X (1..Len(TermsOf(opts))) :
                     /\ Includes(cs[d], TermsOf(opts)[u])
                     /\ ~Test(TermSearchPattern(opts, TermsOf(opts)[u]), cs[d])}}

\* What the rule reported.
Reported ==
  {[comment |-> reports[i].comment, at |-> reports[i].at,
    messageId |-> reports[i].messageId] : i \in 1..Len(reports)}

\* Values of the comment option.
CommentOptions == {LeftOut, Given(""), Given("e.g. TODO: JIRA-1234 - description")}

\* C26: the message of every report is missingTicketWithDescription when a
\* description is set, else missingTicketWithCommentPattern when a comment
\* pattern is set, else missingTicket; what is reported, and with which
\* message, is what it would be for any other value of the comment option;
\* and with a comment pattern set, a comment that contains a term is
\* reported exactly if its value does not match the comment pattern.
C26_MessageByPriority ==
  /\ \A i \in 1..Len(reports) :
       /\ IsSet(options.description) =>
            reports[i].messageId = "missingTicketWithDescription"
       /\ (~IsSet(options.description) /\ IsSet(options.commentPattern)) =>
            reports[i].messageId = "missingTicketWithCommentPattern"
       /\ (~IsSet(options.description) /\ ~IsSet(options.commentPattern)) =>
            reports[i].messageId = "missingTicket"
  /\ lpc = "linted" =>
       /\ \A o \in CommentOptions :
            Reported = Outcome([options EXCEPT !.comment = o], comments)
       /\ IsSet(options.commentPattern) =>
            \A c \in 1..Len(comments) : \A t \in 1..Len(TermsOf(options)) :
              Includes(comments[c], TermsOf(options)[t]) =>
                (ReportsFor(c, t) # {}
                   <=> ~Test(Compile(options.commentPattern.v), comments[c]))

C26_Witness ==
  /\ lpc = "linted"
  /\ IsSet(options.commentPattern)
  /\ IsSet(options.description)
  /\ comments = <<ParenthesisedComment, DocumentedComment>>
  /\ Len(reports) = 1
  /\ reports[1].comment = 1
  /\ reports[1].messageId = "missingTicketWithDescription"

\* The invocation before this one returned, and every known key had a
\* non-empty value in its mapping.
PrevSucceeded ==
  /\ run > 1
  /\ \/ prev.pc \in {"returned", "urlReturned"}
     \/ prev.pc = "exited" /\ prev.exitCode = <<0>>
  /\ \A i \in 1..Len(registry) : ~IsEmptyValue(Get(prev.config, registry[i]))

\* This invocation prompts for nothing, writes nothing and goes on to return
\* the mapping the invocation before ended with.
RepeatsPrev ==
  /\ prompted = <<>>
  /\ writes = 0
  /\ file = prev.file
  /\ pc \notin {"prompt", "interrupted", "threw"}
  /\ exitCode # <<FailureStatus>>
  /\ ~Loading => (loaded = prev.config /\ config = prev.config)

\* C27 as stated: after an invocation that returned with a non-empty value
\* for every known key, the next invocation on the same root issues no
\* prompt, performs no write and returns the same mapping.
C27_ResolveIdempotent == PrevSucceeded => RepeatsPrev

\* C27 (amended): the same, where the process can read the file the first
\* invocation left.
C27_ResolveIdempotentIfReadable ==
  (PrevSucceeded /\ prev.file.readable) => RepeatsPrev

C27_Witness ==
  /\ run = 2
  /\ PrevSucceeded
  /\ prev.writes = 1
  /\ prev.file.readable
  /\ pc = "returned"
  /\ Get(result, "other") = Str(<<"u">>)
  /\ Get(result, PROMPTS[1]) = Str(<<"x">>)
  /\ result = prev.config
  /\ writes = 0

\* The texts the two writers write.
ThisText == Stringify(config) \o <<Newline>>
OtherText == Stringify(other.config) \o <<Newline>>

\* No write is under way.
Quiet == pc # "writing" /\ other.pc # "opened"

\* The file holds the mapping the invocation loaded with its own answers
\* set, and nothing else.
HoldsLoadedPlusAnswers ==
  /\ file.text = ThisText
  /\ Keys(config) = Keys(loaded) \cup AnsweredKeys
  /\ \A k \in Keys(config) :
       Get(config, k) = IF k \in AnsweredKeys THEN AnswerFor(k) ELSE Get(loaded, k)

\* The file is whole: missing or empty, the text of the start, or the text
\* one writer wrote.
FileIsWhole ==
  \/ file.text = <<>>
  \/ file.text = file0.text
  \/ lastWrite # "none" /\ file.text \in {ThisText, OtherText}

LastWriterWins ==
  /\ (Quiet /\ lastWrite = "this") => HoldsLoadedPlusAnswers
  /\ (Quiet /\ lastWrite = "other") => file.text = OtherText
  /\ pc # "idle" => FileIsWhole

\* C28 as stated: with an invocation and another writer interleaved, a save
\* leaves the file holding the mapping the invocation loaded plus its own
\* answers; when no write is under way the file is the text of the writer
\* that wrote last; and the file is never a mixture of the two mappings.
C28_LastWriterWins == LastWriterWins

\* C28 (amended): the same, as long as no write began while another write
\* was under way.
C28_LastWriterWinsUnlessOverlap == ~overlap => LastWriterWins

\* The other writer wrote between the load and the save of the invocation,
\* and its entry is lost.
C28_Witness ==
  /\ ~overlap
  /\ pc = "returned"
  /\ writes = 1
  /\ lastWrite = "this"
  /\ other.pc = "done"
  /\ Get(other.config, "other") = Str(<<"w">>)
  /\ loaded = <<>>
  /\ file.text = ThisText
  /\ ~Has(TextEntries(file.text), "other")

\* The messages of the prompts issued, in the order of the prompts.
PromptMessages == [i \in 1..Len(prompted) |-> PromptMessage(prompted[i])]

\* C29: the config JSON is on standard output only in a standalone run, when
\* every prompt has been answered and its interface closed, every known key
\* has been visited and the write, if one was due, is done and has left the
\* file holding the mapping; standard output is then the messages of the
\* prompts issued, in order, followed by the JSON, so it is the JSON alone
\* exactly if no prompt was issued.  The step that prints it neither prompts
\* nor writes the file, and no prompt and no write follows it.
C29_JsonAfterPromptsAndWrite ==
  /\ [](ConfigPrinted =>
          /\ entry = "main"
          /\ Len(typed) = Len(prompted)
          /\ rlOpen = 0
          /\ idx > Len(registry)
          /\ writes = (IF AnsweredKeys # {} THEN 1 ELSE 0)
          /\ writes = 1 => (file.text = Stringify(result) \o <<Newline>> /\ thrown = NoError)
          /\ stdout = PromptMessages \o <<JsonOutput(result)>>
          /\ (stdout = <<JsonOutput(result)>> <=> prompted = <<>>))
  /\ [][(ConfigPrinted' /\ ~ConfigPrinted) =>
          /\ pc = "returned"
          /\ stdout = PromptMessages
          /\ prompted' = prompted /\ typed' = typed
          /\ writes' = writes /\ file' = file]_vars
  /\ [][ConfigPrinted => (stdout' = stdout /\ file' = file /\ writes' = writes)]_vars

C29_Witness ==
  /\ entry = "main"
  /\ ConfigPrinted
  /\ registry = PROMPTS \o <<"secondKnownKey">>
  /\ Len(stdout) = 3
  /\ stdout[1] = PromptMessage(PROMPTS[1])
  /\ stdout[2] = PromptMessage("secondKnownKey")
  /\ stdout[3] = JsonOutput(result)
  /\ writes = 1
  /\ DeclinedKeys = {PROMPTS[1]}

====
